---- MODULE Spec2Model ----
(***************************************************************************)
(* Titanic Dataset Analysis Chatbot (src/my_app.py).                       *)
(*                                                                         *)
(* The model covers the dataset preprocessor (load_and_process_data), the  *)
(* keyword dispatch of TitanicAgent.process_query, the chart builder       *)
(* create_visualization, and main, which Streamlit re-executes from top to *)
(* bottom on every interaction while st.session_state.messages persists.   *)
(*                                                                         *)
(* A query is a sequence of one-character strings, so that lower() and the *)
(* Python `in` substring test are computed character by character.         *)
(*                                                                         *)
(* A text response is a record [intent, data]: the f-string that the code  *)
(* returns is identified by the branch that built it and by the numbers    *)
(* it interpolates; the decimal rendering (:.1f, :.2f) is not modelled.    *)
(* The numeric columns Age and Fare of the processed frame are held        *)
(* doubled (half units), so that the median of an even number of whole     *)
(* values is exact.  The source holds whole values.                        *)
(*                                                                         *)
(* pd.read_csv is taken to succeed (the table at the URL is reachable) and  *)
(* df[col].fillna(value, inplace=True) is taken to fill the frame, as it   *)
(* does without copy-on-write.  The order value_counts gives to equally    *)
(* frequent values is not fixed by pandas and is left open.                *)
(***************************************************************************)
EXTENDS Integers, Sequences, FiniteSets, TLC

VARIABLES
    source,     \* the remote CSV: [columns, rows]
    df,         \* the frame the last run of main loaded (NoFrame before any run)
    messages,   \* st.session_state.messages
    page,       \* the chat elements the last run of main rendered, in order
    loads,      \* number of times load_and_process_data has been called
    query,      \* the query handed to the agent / chart builder (function-level runs)
    answer,     \* what process_query returned for it
    fig,        \* what create_visualization returned for it
    pc          \* position of the function-level run

vars == <<source, df, messages, page, loads, query, answer, fig, pc>>

----------------------------------------------------------------------------
(* Bounds of the model *)

MaxWords == 2      \* longest generated query, in vocabulary tokens
MaxRows == 4       \* longest generated passenger table (class-varying family)
MaxAgeRows == 2    \* longest generated passenger table (age-varying family)
MaxLog == 2        \* longest conversation log explored
MaxLoads == 3      \* most runs of main explored

----------------------------------------------------------------------------
(* Strings *)

Upper ==
    <<"A","B","C","D","E","F","G","H","I","J","K","L","M",
      "N","O","P","Q","R","S","T","U","V","W","X","Y","Z">>

Lower ==
    <<"a","b","c","d","e","f","g","h","i","j","k","l","m",
      "n","o","p","q","r","s","t","u","v","w","x","y","z">>

\* the characters that occur in queries
Chars == {Upper[i] : i \in 1..Len(Upper)} \cup {Lower[i] : i \in 1..Len(Lower)} \cup {" ", "?"}

\* str.lower() on each character: an upper-case letter maps to its lower-case
\* letter, every other character to itself
LowerMap ==
    [c \in Chars |->
        IF \E i \in 1..Len(Upper) : Upper[i] = c
        THEN Lower[CHOOSE i \in 1..Len(Upper) : Upper[i] = c]
        ELSE c]

lowerChar(c) == LowerMap[c]

RECURSIVE lower(_)
\* str.lower()
lower(s) == IF Len(s) = 0 THEN <<>> ELSE <<lowerChar(Head(s))>> \o lower(Tail(s))

\* Python `k in s` on strings: k occurs in s as a contiguous substring
Contains(s, k) ==
    \E i \in 0..(Len(s) - Len(k)) : \A j \in 1..Len(k) : s[i + j] = k[j]

\* all(...) written for any(...)
AllIn(terms, s) == \A i \in 1..Len(terms) : Contains(s, terms[i])

\* any(term in s for term in terms)
AnyIn(terms, s) == \E i \in 1..Len(terms) : Contains(s, terms[i])

----------------------------------------------------------------------------
(* String literals of the program *)

\* "survived"  (src/my_app.py:130)
K_survived ==
    <<"s","u","r","v","i","v","e","d">>

\* "average age"  (src/my_app.py:135)
K_average_age ==
    <<"a","v","e","r","a","g","e"," ","a","g","e">>

\* "male"  (src/my_app.py:139)
K_male ==
    <<"m","a","l","e">>

\* "female"  (src/my_app.py:139)
K_female ==
    <<"f","e","m","a","l","e">>

\* "gender"  (src/my_app.py:139)
K_gender ==
    <<"g","e","n","d","e","r">>

\* "class"  (src/my_app.py:143)
K_class ==
    <<"c","l","a","s","s">>

\* "show"  (src/my_app.py:143)
K_show ==
    <<"s","h","o","w">>

\* "plot"  (src/my_app.py:143)
K_plot ==
    <<"p","l","o","t">>

\* "chart"  (src/my_app.py:143)
K_chart ==
    <<"c","h","a","r","t">>

\* "graph"  (src/my_app.py:143)
K_graph ==
    <<"g","r","a","p","h">>

\* "visualize"  (src/my_app.py:213)
K_visualize ==
    <<"v","i","s","u","a","l","i","z","e">>

\* "embarked"  (src/my_app.py:147)
K_embarked ==
    <<"e","m","b","a","r","k","e","d">>

\* "port"  (src/my_app.py:147)
K_port ==
    <<"p","o","r","t">>

\* "fare"  (src/my_app.py:155)
K_fare ==
    <<"f","a","r","e">>

\* "age distribution"  (src/my_app.py:69)
K_age_distribution ==
    <<"a","g","e"," ","d","i","s","t","r","i","b","u","t","i","o","n">>

\* "survival rate by class"  (src/my_app.py:77)
K_survival_rate_by_class ==
    <<"s","u","r","v","i","v","a","l"," ","r","a","t","e"," ","b","y"," ","c","l","a","s","s">>

\* "pie chart"  (src/my_app.py:86)
K_pie_chart ==
    <<"p","i","e"," ","c","h","a","r","t">>

\* "survival"  (src/my_app.py:93)
K_survival ==
    <<"s","u","r","v","i","v","a","l">>

\* "How many passengers survived?"  (src/my_app.py:192)
Q1 ==
    <<"H","o","w"," ","m","a","n","y"," ","p","a","s","s","e","n","g","e","r","s"," ","s","u",
      "r","v","i","v","e","d","?">>

\* "Show me the age distribution of passengers"  (src/my_app.py:193)
Q2 ==
    <<"S","h","o","w"," ","m","e"," ","t","h","e"," ","a","g","e"," ","d","i","s","t","r","i",
      "b","u","t","i","o","n"," ","o","f"," ","p","a","s","s","e","n","g","e","r","s">>

\* "What was the survival rate by class?"  (src/my_app.py:194)
Q3 ==
    <<"W","h","a","t"," ","w","a","s"," ","t","h","e"," ","s","u","r","v","i","v","a","l"," ",
      "r","a","t","e"," ","b","y"," ","c","l","a","s","s","?">>

\* "Create a pie chart of passenger classes"  (src/my_app.py:195)
Q4 ==
    <<"C","r","e","a","t","e"," ","a"," ","p","i","e"," ","c","h","a","r","t"," ","o","f"," ",
      "p","a","s","s","e","n","g","e","r"," ","c","l","a","s","s","e","s">>

\* "Compare survival rates between males and females"  (src/my_app.py:196)
Q5 ==
    <<"C","o","m","p","a","r","e"," ","s","u","r","v","i","v","a","l"," ","r","a","t","e","s",
      " ","b","e","t","w","e","e","n"," ","m","a","l","e","s"," ","a","n","d"," ","f","e","m",
      "a","l","e","s">>

\* "What was the most common age group?"  (src/my_app.py:197)
Q6 ==
    <<"W","h","a","t"," ","w","a","s"," ","t","h","e"," ","m","o","s","t"," ","c","o","m","m",
      "o","n"," ","a","g","e"," ","g","r","o","u","p","?">>

\* "Show me the fare distribution by class"  (src/my_app.py:198)
Q7 ==
    <<"S","h","o","w"," ","m","e"," ","t","h","e"," ","f","a","r","e"," ","d","i","s","t","r",
      "i","b","u","t","i","o","n"," ","b","y"," ","c","l","a","s","s">>

\* "How many passengers embarked from each port?"  (src/my_app.py:199)
Q8 ==
    <<"H","o","w"," ","m","a","n","y"," ","p","a","s","s","e","n","g","e","r","s"," ","e","m",
      "b","a","r","k","e","d"," ","f","r","o","m"," ","e","a","c","h"," ","p","o","r","t","?">>

\* "What was the average ticket fare?"  (src/my_app.py:200)
Q9 ==
    <<"W","h","a","t"," ","w","a","s"," ","t","h","e"," ","a","v","e","r","a","g","e"," ","t",
      "i","c","k","e","t"," ","f","a","r","e","?">>

\* main.example_queries
example_queries == <<Q1, Q2, Q3, Q4, Q5, Q6, Q7, Q8, Q9>>

\* the guard list without 'show'
stat_guard_terms_no_show == <<K_plot, K_chart, K_graph>>

\* ['show', 'plot', 'chart', 'graph'] in process_query
stat_guard_terms == <<K_show, K_plot, K_chart, K_graph>>

\* ['show', 'plot', 'chart', 'graph', 'visualize'] in main
viz_terms == <<K_show, K_plot, K_chart, K_graph, K_visualize>>

----------------------------------------------------------------------------
(* Queries a user may type *)

\* "show survival rate by class"
Q_show_class ==
    <<"s","h","o","w"," ","s","u","r","v","i","v","a","l"," ","r","a","t","e"," ","b","y"," ",
      "c","l","a","s","s">>

\* "asdkjasd"
Q_noise ==
    <<"a","s","d","k","j","a","s","d">>

T_Survived ==
    <<"S","u","r","v","i","v","e","d">>

T_average_age ==
    <<"a","v","e","r","a","g","e"," ","a","g","e">>

T_male ==
    <<"m","a","l","e">>

T_Female ==
    <<"F","e","m","a","l","e">>

T_gender ==
    <<"g","e","n","d","e","r">>

T_class ==
    <<"c","l","a","s","s">>

T_show ==
    <<"s","h","o","w">>

T_Plot ==
    <<"P","l","o","t">>

T_chart ==
    <<"c","h","a","r","t">>

T_graph ==
    <<"g","r","a","p","h">>

T_visualize ==
    <<"v","i","s","u","a","l","i","z","e">>

T_embarked ==
    <<"e","m","b","a","r","k","e","d">>

T_port ==
    <<"p","o","r","t">>

T_FARE ==
    <<"F","A","R","E">>

T_age_distribution ==
    <<"a","g","e"," ","d","i","s","t","r","i","b","u","t","i","o","n">>

T_survival_rate_by_class ==
    <<"s","u","r","v","i","v","a","l"," ","r","a","t","e"," ","b","y"," ","c","l","a","s","s">>

T_pie_chart ==
    <<"p","i","e"," ","c","h","a","r","t">>

T_survival ==
    <<"s","u","r","v","i","v","a","l">>

T_xyz ==
    <<"x","y","z">>

Vocab ==
    {T_Survived, T_average_age, T_male, T_Female, T_gender,
     T_class, T_show, T_Plot, T_chart, T_graph,
     T_visualize, T_embarked, T_port, T_FARE, T_age_distribution,
     T_survival_rate_by_class, T_pie_chart, T_survival, T_xyz}

RECURSIVE Join(_)
\* the tokens of ws separated by single spaces
Join(ws) ==
    IF Len(ws) = 0 THEN <<>>
    ELSE IF Len(ws) = 1 THEN ws[1]
    ELSE ws[1] \o <<" ">> \o Join(Tail(ws))

ExampleSet == {example_queries[i] : i \in 1..Len(example_queries)}

\* every query of 1..MaxWords vocabulary tokens, plus the example queries
QuerySpace ==
    ExampleSet \cup {Q_show_class, Q_noise}
      \cup {Join(ws) : ws \in UNION {[1..n -> Vocab] : n \in 1..MaxWords}}

\* what the chat input is given in the session runs
TypedQueries == ExampleSet \cup {Q_show_class, Q_noise}

----------------------------------------------------------------------------
(* The passenger table *)

\* a missing numeric cell (pandas NaN); every real age and fare is >= 0
NaN == -1

\* a missing text cell, and the AgeGroup of an age that falls in no bin
NA == "NaN"

RequiredByLoad == {"Age", "Embarked", "Fare"}

AllColumns == {"Survived", "Pclass", "Sex", "Age", "Fare", "Embarked"}

\* sort order of the port codes (pandas sorts mode() ascending)
PortOrder == <<"C", "Q", "S">>

\* sort order of the sexes (groupby sorts its keys)
SexOrder == <<"female", "male">>

\* sort order of the classes
ClassOrder == <<1, 2, 3>>

NoFrame == [columns |-> {}, rows |-> <<>>]


RECURSIVE SumSeq(_)
SumSeq(s) == IF Len(s) = 0 THEN 0 ELSE Head(s) + SumSeq(Tail(s))

Min2(a, b) == IF a < b THEN a ELSE b

Column(frame, c) == [i \in 1..Len(frame.rows) |-> frame.rows[i][c]]

NotMissing(col) == SelectSeq(col, LAMBDA v : v # NaN)

Sorted(col) == SortSeq(col, LAMBDA a, b : a < b)

\* twice Series.median() of whole values (NaN skipped); NaN when none is present
Median2(col) ==
    LET s == Sorted(NotMissing(col))
        n == Len(s)
    IN  IF n = 0 THEN NaN
        ELSE IF n % 2 = 1 THEN 2 * s[(n + 1) \div 2]
        ELSE s[n \div 2] + s[n \div 2 + 1]

\* col.fillna(col.median()), in half units
fillna_median(col) ==
    [i \in 1..Len(col) |-> IF col[i] = NaN THEN Median2(col) ELSE 2 * col[i]]

Count(col, v) == Cardinality({i \in 1..Len(col) : col[i] = v})

\* Series.mode() of the port column: the most frequent codes, sorted
mode(col) ==
    LET best(v) == Count(col, v) > 0 /\ \A i \in 1..Len(PortOrder) : Count(col, PortOrder[i]) <= Count(col, v)
    IN  SelectSeq(PortOrder, best)

\* pd.cut bin edges and labels for AgeGroup
bins == <<0, 12, 18, 35, 50, 65, 100>>

labels == <<"Child", "Teen", "Young Adult", "Adult", "Senior", "Elderly">>

\* pd.cut(age, bins, labels): right=True, include_lowest=False; age in half units
cut(age2) ==
    IF age2 # NaN /\ \E i \in 1..Len(labels) : 2 * bins[i] < age2 /\ age2 <= 2 * bins[i + 1]
    THEN labels[CHOOSE i \in 1..Len(labels) : 2 * bins[i] < age2 /\ age2 <= 2 * bins[i + 1]]
    ELSE NA

fare_labels == <<"Economy", "Standard", "Premium", "Luxury">>

\* four times the q-quantile edges of pd.qcut(col, q=4), linear interpolation;
\* col holds no NaN and is not empty
qcut_edges(col) ==
    LET v == Sorted(col)
        n == Len(v)
        edge(k) ==
            LET p == k * (n - 1)
                lo == p \div 4
                hi == Min2(lo + 1, n - 1)
            IN  4 * v[lo + 1] + (p % 4) * (v[hi + 1] - v[lo + 1])
    IN  [k \in 1..5 |-> edge(k - 1)]

\* qcut raises ValueError ("Bin edges must be unique") on repeated edges
qcut_raises(col) ==
    \/ Len(NotMissing(col)) = 0
    \/ \E k \in 1..4 : qcut_edges(NotMissing(col))[k] = qcut_edges(NotMissing(col))[k + 1]

\* pd.qcut(col, q=4, labels): include_lowest=True
qcut(col, fare2) ==
    LET e == qcut_edges(col)
        inbin(i) == (e[i] < 4 * fare2 \/ (i = 1 /\ e[1] = 4 * fare2)) /\ 4 * fare2 <= e[i + 1]
    IN  IF fare2 # NaN /\ \E i \in 1..4 : inbin(i)
        THEN fare_labels[CHOOSE i \in 1..4 : inbin(i)]
        ELSE NA

\* load_and_process_data raises: df['Age'] / df['Embarked'] / df['Fare'] on an
\* absent column (KeyError), mode()[0] when no port is present, qcut on
\* repeated quartile edges
load_raises(src) ==
    \/ ~(RequiredByLoad \subseteq src.columns)
    \/ Len(mode(Column(src, "Embarked"))) = 0
    \/ qcut_raises(fillna_median(Column(src, "Fare")))

\* the frame load_and_process_data returns when it does not raise
load_and_process_data(src) ==
    LET age == fillna_median(Column(src, "Age"))
        emb == [i \in 1..Len(src.rows) |->
                  IF src.rows[i].Embarked = NA THEN mode(Column(src, "Embarked"))[1]
                  ELSE src.rows[i].Embarked]
        fare == fillna_median(Column(src, "Fare"))
    IN  [columns |-> src.columns \cup {"AgeGroup", "FareCategory"},
         rows |-> [i \in 1..Len(src.rows) |->
                     [Survived |-> src.rows[i].Survived,
                      Pclass |-> src.rows[i].Pclass,
                      Sex |-> src.rows[i].Sex,
                      Age |-> age[i],
                      Fare |-> fare[i],
                      Embarked |-> emb[i],
                      AgeGroup |-> cut(age[i]),
                      FareCategory |-> qcut(fare, fare[i])]]]

----------------------------------------------------------------------------
(* Aggregations over the frame *)

\* Series.value_counts() of a column whose values lie in dom (three values):
\* <<value, count>> for each value present, most frequent first; equally
\* frequent values come in the order tie gives
value_counts(col, dom, tie) ==
    LET cand == [i \in 1..3 |-> dom[tie[i]]]
        present == SelectSeq(cand, LAMBDA v : Count(col, v) > 0)
        keyed == [i \in 1..Len(present) |-> <<present[i], Count(col, present[i]), i>>]
        s == SortSeq(keyed, LAMBDA a, b : a[2] > b[2] \/ (a[2] = b[2] /\ a[3] < b[3]))
    IN  [i \in 1..Len(s) |-> <<s[i][1], s[i][2]>>]

\* value_counts().values
vc_values(vc) == [i \in 1..Len(vc) |-> vc[i][2]]

\* frame.groupby(key)['Survived']: <<key, sum, count>> per key present, keys sorted
groupby_survived(frame, key, dom) ==
    LET present == SelectSeq(dom, LAMBDA k : Count(Column(frame, key), k) > 0)
        members(k) == {i \in 1..Len(frame.rows) : frame.rows[i][key] = k}
        survivors(k) == Cardinality({i \in members(k) : frame.rows[i].Survived = 1})
    IN  [i \in 1..Len(present) |-> <<present[i], survivors(present[i]), Cardinality(members(present[i]))>>]

\* two values of dom occur equally often in col
HasTies(col, dom) ==
    \E i, j \in 1..Len(dom) : i < j /\ Count(col, dom[i]) > 0 /\ Count(col, dom[i]) = Count(col, dom[j])

\* the orders value_counts may give equally frequent values: pandas fixes none,
\* so every order when the frame has such values; one order is enough otherwise
TieOrders(frame) ==
    IF HasTies(Column(frame, "Pclass"), ClassOrder) \/ HasTies(Column(frame, "Embarked"), PortOrder)
    THEN Permutations(1..3)
    ELSE {<<1, 2, 3>>}

MaxSeq(col) == CHOOSE v \in {col[i] : i \in 1..Len(col)} : \A j \in 1..Len(col) : col[j] <= v

MinSeq(col) == CHOOSE v \in {col[i] : i \in 1..Len(col)} : \A j \in 1..Len(col) : v <= col[j]

----------------------------------------------------------------------------
(* TitanicAgent.process_query *)

Text(intent, names, data) == [intent |-> intent, names |-> names, data |-> data]

NoText == Text("None", <<>>, <<>>)

\* the fixed help text
HelpText == Text("Help", <<>>, <<>>)

\* the fixed apology
ApologyText == Text("Apology", <<>>, <<>>)

Returns(v) == [raised |-> FALSE, ret |-> v]

\* an exception leaves the body
Raises == [raised |-> TRUE, ret |-> NoText]

\* frame[c] raises KeyError on an absent column
HasColumns(frame, cs) == cs \subseteq frame.columns

port_names(port) ==
    CASE port = "S" -> "Southampton"
      [] port = "C" -> "Cherbourg"
      [] port = "Q" -> "Queenstown"
      [] OTHER -> port

\* the if / elif chain of process_query, on the lowered query
process_query_rules(frame, query_lower, tie) ==
        IF Contains(query_lower, K_survived) THEN
            IF HasColumns(frame, {"Survived"})
            THEN Returns(Text("SurvivalCount", <<>>,
                              <<SumSeq(Column(frame, "Survived")), Len(frame.rows)>>))
            ELSE Raises
        ELSE IF Contains(query_lower, K_average_age) THEN
            IF HasColumns(frame, {"Age"})
            THEN Returns(Text("AverageAge", <<>>,
                              <<SumSeq(NotMissing(Column(frame, "Age"))),
                                Len(NotMissing(Column(frame, "Age")))>>))
            ELSE Raises
        ELSE IF \/ Contains(query_lower, K_male)
                \/ Contains(query_lower, K_female)
                \/ Contains(query_lower, K_gender) THEN
            IF HasColumns(frame, {"Sex"})
            THEN Returns(Text("GenderBreakdown", <<>>,
                              <<Count(Column(frame, "Sex"), "male"),
                                Count(Column(frame, "Sex"), "female")>>))
            ELSE Raises
        ELSE IF Contains(query_lower, K_class) /\ ~AnyIn(stat_guard_terms, query_lower) THEN
            IF HasColumns(frame, {"Pclass"})
            THEN Returns(Text("ClassBreakdown", <<>>,
                              <<Count(Column(frame, "Pclass"), 1),
                                Count(Column(frame, "Pclass"), 2),
                                Count(Column(frame, "Pclass"), 3)>>))
            ELSE Raises
        ELSE IF Contains(query_lower, K_embarked) \/ Contains(query_lower, K_port) THEN
            IF HasColumns(frame, {"Embarked"})
            THEN LET embarked_stats == value_counts(Column(frame, "Embarked"), PortOrder, tie)
                 IN  Returns(Text("PortBreakdown",
                                  [i \in 1..Len(embarked_stats) |-> port_names(embarked_stats[i][1])],
                                  vc_values(embarked_stats)))
            ELSE Raises
        ELSE IF Contains(query_lower, K_fare) /\ ~AnyIn(stat_guard_terms, query_lower) THEN
            IF HasColumns(frame, {"Fare"})
            THEN Returns(Text("FareStats", <<>>,
                              <<SumSeq(Column(frame, "Fare")), Len(frame.rows),
                                MaxSeq(Column(frame, "Fare")), MinSeq(Column(frame, "Fare"))>>))
            ELSE Raises
        ELSE Returns(HelpText)

\* the query as the chain sees it, were lower() left out
process_query_try_case_sensitive(frame, q, tie) == process_query_rules(frame, q, tie)

\* the body of the try block of process_query: query_lower = query.lower(), then the chain
process_query_try(frame, q, tie) == process_query_rules(frame, lower(q), tie)

\* the handler, were the exception passed on to the caller
except_process_query_reraise(r) ==
    IF r.raised THEN [raised |-> TRUE, text |-> NoText, error |-> FALSE]
    ELSE [raised |-> FALSE, text |-> r.ret, error |-> FALSE]

\* try / except Exception around the body: [text, error], error = st.error was called
except_process_query(r) ==
    IF r.raised THEN [raised |-> FALSE, text |-> ApologyText, error |-> TRUE]
    ELSE [raised |-> FALSE, text |-> r.ret, error |-> FALSE]

process_query(frame, q, tie) == except_process_query(process_query_try(frame, q, tie))

----------------------------------------------------------------------------
(* create_visualization *)

Chart(kind, title, names, values, per) ==
    [kind |-> kind, title |-> title, names |-> names, values |-> values, per |-> per]

\* return None
None == Chart("None", "", <<>>, <<>>, <<>>)

ChartReturns(v) == [raised |-> FALSE, ret |-> v]

ChartRaises == [raised |-> TRUE, ret |-> None]

class_names == <<"First", "Second", "Third">>

\* the body of the try block of create_visualization, on the lowered query;
\* plotly raises ValueError when x / names and y / values differ in length.
\* A bar's value i is 100 * values[i] / per[i].
create_visualization_try(frame, q, tie) ==
    IF Contains(q, K_age_distribution) THEN
        IF HasColumns(frame, {"Age"})
        THEN ChartReturns(Chart("histogram", "Age Distribution of Passengers",
                                <<>>, Column(frame, "Age"), <<>>))
        ELSE ChartRaises
    ELSE IF Contains(q, K_survival_rate_by_class) THEN
        IF HasColumns(frame, {"Pclass", "Survived"})
        THEN LET survival_by_class == groupby_survived(frame, "Pclass", ClassOrder)
             IN  IF Len(survival_by_class) = Len(class_names)
                 THEN ChartReturns(Chart("bar", "Survival Rate by Passenger Class", class_names,
                                         [i \in 1..Len(survival_by_class) |-> 100 * survival_by_class[i][2]],
                                         [i \in 1..Len(survival_by_class) |-> survival_by_class[i][3]]))
                 ELSE ChartRaises
        ELSE ChartRaises
    ELSE IF Contains(q, K_pie_chart) /\ Contains(q, K_class) THEN
        IF HasColumns(frame, {"Pclass"})
        THEN LET class_dist == value_counts(Column(frame, "Pclass"), ClassOrder, tie)
             IN  IF Len(class_dist) = Len(class_names)
                 THEN ChartReturns(Chart("pie", "Distribution of Passenger Classes", class_names,
                                         vc_values(class_dist), <<>>))
                 ELSE ChartRaises
        ELSE ChartRaises
    ELSE IF /\ Contains(q, K_survival)
            /\ (Contains(q, K_gender) \/ Contains(q, K_male) \/ Contains(q, K_female)) THEN
        IF HasColumns(frame, {"Sex", "Survived"})
        THEN LET survival_by_sex == groupby_survived(frame, "Sex", SexOrder)
             IN  ChartReturns(Chart("bar", "Survival Rate by Gender",
                                    [i \in 1..Len(survival_by_sex) |-> survival_by_sex[i][1]],
                                    [i \in 1..Len(survival_by_sex) |-> 100 * survival_by_sex[i][2]],
                                    [i \in 1..Len(survival_by_sex) |-> survival_by_sex[i][3]]))
        ELSE ChartRaises
    ELSE ChartReturns(None)

\* try / except Exception around the body: an exception becomes None
except_create_visualization(r) ==
    IF r.raised THEN [raised |-> FALSE, ret |-> None] ELSE r

\* query = query.lower() runs before the try; it cannot fail on a str
create_visualization(frame, q, tie) ==
    except_create_visualization(create_visualization_try(frame, lower(q), tie))

----------------------------------------------------------------------------
(* Inputs: the tables the remote CSV may hold *)

\* row i of a generated table
Passenger(i, pclass, age) ==
    [Survived |-> i % 2,
     Pclass |-> pclass,
     Sex |-> IF i % 3 = 0 THEN "female" ELSE "male",
     Age |-> age,
     Fare |-> IF i = 3 THEN NaN ELSE 10 * i,
     Embarked |-> IF i % 4 = 1 THEN "S" ELSE IF i % 4 = 2 THEN NA ELSE IF i % 4 = 3 THEN "C" ELSE "S"]

MkSource(cols, pclass, ages) ==
    [columns |-> cols, rows |-> [i \in 1..Len(pclass) |-> Passenger(i, pclass[i], ages[i])]]

\* whole ages around every bin edge, and a missing age
AgeValues == {NaN, 0, 1, 12, 13, 18, 35, 50, 65, 100, 101}

SampleClasses == <<3, 1, 3, 2, 3, 1>>

SampleAges == <<22, 38, NaN, 4, 35, 54>>

Prefix(s, n) == [i \in 1..n |-> s[((i - 1) % Len(s)) + 1]]

\* six passengers, every column, all three classes
FullSample == MkSource(AllColumns, SampleClasses, SampleAges)

\* the same passengers without the second class
TwoClassSample == MkSource(AllColumns, <<3, 1, 3, 1, 3, 3>>, SampleAges)

\* the same passengers without the columns that load_and_process_data does not read
BareSample == MkSource(RequiredByLoad, SampleClasses, SampleAges)

\* one column absent
SchemaSources == {MkSource(AllColumns \ {c}, SampleClasses, SampleAges) : c \in AllColumns}

\* every class column of 1..MaxRows passengers
ClassSources ==
    {MkSource(AllColumns, p, Prefix(SampleAges, Len(p))) :
        p \in UNION {[1..n -> 1..3] : n \in 1..MaxRows}}

\* every age column of 1..MaxAgeRows passengers
AgeSources ==
    {MkSource(AllColumns, Prefix(SampleClasses, Len(a)), a) :
        a \in UNION {[1..n -> AgeValues] : n \in 1..MaxAgeRows}}

----------------------------------------------------------------------------
(* main: one run of the script *)

Msg(role, content) == [role |-> role, content |-> content]

\* one element of the page: a chat message block, with the text written in it,
\* whether st.error was shown, and the chart plotted in it (None when none)
Item(role, content, text, error, chart) ==
    [role |-> role, content |-> content, text |-> text, error |-> error, chart |-> chart]

\* an uncaught exception ends the run; Streamlit shows the traceback
ExceptionItem == Item("exception", <<>>, NoText, TRUE, None)

\* the chart, were create_visualization called for every query
chart_for_ungated(frame, content, tie) == create_visualization(frame, content, tie)

\* the chart main plots for a message or query: only when a visualization
\* term occurs in it, and only when create_visualization returns a figure
chart_for(frame, content, tie) ==
    IF AnyIn(viz_terms, lower(content))
    THEN create_visualization(frame, content, tie)
    ELSE [raised |-> FALSE, ret |-> None]

\* for message in st.session_state.messages: ...
replay(frame, msgs, tie) ==
    [i \in 1..Len(msgs) |->
        LET fig_i == chart_for(frame, msgs[i].content, tie)
        IN  IF fig_i.raised THEN ExceptionItem
            ELSE Item(msgs[i].role, msgs[i].content, NoText, FALSE, fig_i.ret)]

\* with st.chat_message("assistant"): response, st.write, chart
respond(frame, q, tie) ==
    LET response == process_query(frame, q, tie)
        chart == chart_for(frame, q, tie)
    IN  IF response.raised \/ chart.raised THEN ExceptionItem
        ELSE Item("assistant", <<>>, response.text, response.error, chart.ret)

\* the run ends at load_and_process_data when it raises
aborted ==
    /\ df' = NoFrame
    /\ page' = <<ExceptionItem>>
    /\ messages' = messages

\* a run with no widget event: the first page load, or any other rerun
Rerun ==
    /\ pc \in {"idle", "rerun", "clicked", "typed"}
    /\ loads < MaxLoads
    /\ loads' = loads + 1
    /\ pc' = "rerun"
    /\ query' = <<>>
    /\ IF load_raises(source) THEN aborted
       ELSE /\ df' = load_and_process_data(source)
            /\ messages' = messages
            /\ \E tie \in TieOrders(df') : page' = replay(df', messages, tie)
    /\ UNCHANGED <<source, answer, fig>>

\* the run that follows a click on the sidebar button of example query q
ClickExample(q) ==
    /\ pc \in {"idle", "rerun", "clicked", "typed"}
    /\ loads < MaxLoads
    /\ Len(messages) < MaxLog
    /\ loads' = loads + 1
    /\ pc' = "clicked"
    /\ query' = q
    /\ IF load_raises(source) THEN aborted
       ELSE /\ df' = load_and_process_data(source)
            /\ messages' = Append(messages, Msg("user", q))
            /\ \E tie \in TieOrders(df') : page' = replay(df', messages', tie)
    /\ UNCHANGED <<source, answer, fig>>

\* the run that follows the submission of q in the chat input
ChatInput(q) ==
    /\ pc \in {"idle", "rerun", "clicked", "typed"}
    /\ loads < MaxLoads
    /\ Len(messages) < MaxLog
    /\ loads' = loads + 1
    /\ pc' = "typed"
    /\ query' = q
    /\ IF load_raises(source) THEN aborted
       ELSE /\ df' = load_and_process_data(source)
            /\ messages' = Append(messages, Msg("user", q))
            /\ \E tie \in TieOrders(df') :
                  page' = replay(df', messages, tie) \o <<respond(df', q, tie)>>
    /\ UNCHANGED <<source, answer, fig>>

NoAnswer == [raised |-> FALSE, text |-> NoText, error |-> FALSE]

NoFig == [raised |-> FALSE, ret |-> None]

\* the tables of the session runs
SessionSamples == {FullSample, TwoClassSample, BareSample, MkSource(AllColumns, <<3>>, <<22>>)}

Init ==
    /\ source \in SessionSamples
    /\ df = NoFrame
    /\ messages = <<>>
    /\ page = <<>>
    /\ loads = 0
    /\ query = <<>>
    /\ answer = NoAnswer
    /\ fig = NoFig
    /\ pc = "idle"

Next ==
    \/ Rerun
    \/ \E q \in ExampleSet : ClickExample(q)
    \/ \E q \in TypedQueries : ChatInput(q)

Spec == Init /\ [][Next]_vars

----------------------------------------------------------------------------
(* Function-level runs: load once, ask the agent, build the chart *)

ClassQueries == {Q3, Q4}

FnInputs ==
    ({FullSample, BareSample} \X QuerySpace)
      \cup (SchemaSources \X TypedQueries)
      \cup (ClassSources \X ClassQueries)
      \cup (AgeSources \X {Q2})

FnInit ==
    /\ \E in \in FnInputs : source = in[1] /\ query = in[2]
    /\ df = NoFrame
    /\ messages = <<>>
    /\ page = <<>>
    /\ loads = 0
    /\ answer = NoAnswer
    /\ fig = NoFig
    /\ pc = "start"

Load ==
    /\ pc = "start"
    /\ loads' = loads + 1
    /\ IF load_raises(source)
       THEN df' = NoFrame /\ pc' = "failed"
       ELSE df' = load_and_process_data(source) /\ pc' = "loaded"
    /\ UNCHANGED <<source, messages, page, query, answer, fig>>

AskAgent ==
    /\ pc = "loaded"
    /\ \E tie \in TieOrders(df) : answer' = process_query(df, query, tie)
    /\ pc' = "answered"
    /\ UNCHANGED <<source, df, messages, page, loads, query, fig>>

BuildChart ==
    /\ pc = "answered"
    /\ \E tie \in TieOrders(df) : fig' = create_visualization(df, query, tie)
    /\ pc' = "done"
    /\ UNCHANGED <<source, df, messages, page, loads, query, answer>>

FnNext == Load \/ AskAgent \/ BuildChart

FnSpec == FnInit /\ [][FnNext]_vars

----------------------------------------------------------------------------
(* Properties *)

Last(s) == s[Len(s)]

\* the run of main got past load_and_process_data
Loaded == df # NoFrame

\* the lowered query mentions keyword k
Mentions(k) == Contains(lower(query), k)

\* the query mentions one of show, plot, chart, graph
MentionsChartTerm == Mentions(K_show) \/ Mentions(K_plot) \/ Mentions(K_chart) \/ Mentions(K_graph)

\* the agent has answered the query of a function-level run
Answered == pc \in {"answered", "done"}

\* the answer is the statistic `intent`, or the apology when the column the
\* statistic reads is absent from the frame
Gives(intent, col) ==
    answer.text.intent = IF col \in df.columns THEN intent ELSE "Apology"

\* C1: process_query decides the textual intent case-insensitively by first
\* match in the order survived, average age, male/female/gender, class
\* without chart term, embarked/port, fare without chart term, help text; the
\* statistic of the earliest matching rule is the answer (the apology when
\* that statistic's computation fails).
C1_IntentPrecedence ==
    Answered =>
      LET r1 == Mentions(K_survived)
          r2 == Mentions(K_average_age)
          r3 == Mentions(K_male) \/ Mentions(K_female) \/ Mentions(K_gender)
          r4 == Mentions(K_class) /\ ~MentionsChartTerm
          r5 == Mentions(K_embarked) \/ Mentions(K_port)
          r6 == Mentions(K_fare) /\ ~MentionsChartTerm
      IN  /\ r1 => Gives("SurvivalCount", "Survived")
          /\ ~r1 /\ r2 => Gives("AverageAge", "Age")
          /\ ~r1 /\ ~r2 /\ r3 => Gives("GenderBreakdown", "Sex")
          /\ ~r1 /\ ~r2 /\ ~r3 /\ r4 => Gives("ClassBreakdown", "Pclass")
          /\ ~r1 /\ ~r2 /\ ~r3 /\ ~r4 /\ r5 => Gives("PortBreakdown", "Embarked")
          /\ ~r1 /\ ~r2 /\ ~r3 /\ ~r4 /\ ~r5 /\ r6 => Gives("FareStats", "Fare")
          /\ ~r1 /\ ~r2 /\ ~r3 /\ ~r4 /\ ~r5 /\ ~r6 => answer.text = HelpText

\* a query written with capitals that matches the first and the sixth rule
\* has been answered with the survival count
C1_Witness ==
    /\ Answered
    /\ query = Join(<<T_Survived, T_FARE>>)
    /\ answer.text.intent = "SurvivalCount"

\* C2 as stated: typing "Compare survival rates between males and females"
\* produces no GenderBreakdown text and produces the survival-by-gender chart.
C2_AsStated ==
    (pc = "typed" /\ query = Q5 /\ Loaded) =>
      /\ Last(page).text.intent # "GenderBreakdown"
      /\ Last(page).chart.title = "Survival Rate by Gender"

\* C2 amended: typing that query produces the GenderBreakdown text (the
\* apology when the Sex column is absent) and no chart, the query holding no
\* visualization term.
C2_CompareGivesGenderText ==
    (pc = "typed" /\ query = Q5 /\ Loaded) =>
      /\ Last(page).role = "assistant"
      /\ Last(page).text.intent = IF "Sex" \in df.columns THEN "GenderBreakdown" ELSE "Apology"
      /\ "Sex" \in df.columns =>
           Last(page).text.data = <<Count(Column(df, "Sex"), "male"), Count(Column(df, "Sex"), "female")>>
      /\ Last(page).chart = None

C2_Witness ==
    /\ pc = "typed"
    /\ query = Q5
    /\ Loaded
    /\ Last(page).text.intent = "GenderBreakdown"
    /\ Last(page).chart = None

\* C3: a click on an example query produces what typing it produces: the log
\* gains the user message and the page shows the agent's text answer for it.
C3_ClickIsTyped ==
    (pc = "clicked" /\ Loaded) =>
      /\ Last(messages) = Msg("user", query)
      /\ \E i \in 1..Len(page) :
           /\ page[i].role = "assistant"
           /\ \E tie \in TieOrders(df) : page[i].text = process_query(df, query, tie).text

\* C4: on a table with passengers in each of the three classes the pie chart
\* has the slices First, Second, Third holding the counts of class 1, 2, 3,
\* which sum to the number of passengers.
C4_PieSlicesByClass ==
    (/\ pc = "done"
     /\ query = Q4
     /\ "Pclass" \in df.columns
     /\ \A c \in 1..3 : Count(Column(df, "Pclass"), c) > 0) =>
      /\ fig.ret.kind = "pie"
      /\ fig.ret.names = <<"First", "Second", "Third">>
      /\ fig.ret.values = [c \in 1..3 |-> Count(Column(df, "Pclass"), c)]
      /\ SumSeq(fig.ret.values) = Len(df.rows)

\* C5 as stated: typing "show survival rate by class" produces the chart and
\* no text answer beside it.
C5_AsStated ==
    (pc = "typed" /\ query = Q_show_class /\ Loaded) =>
      /\ Last(page).text = NoText
      /\ ({"Pclass", "Survived"} \subseteq df.columns /\ \A c \in 1..3 : Count(Column(df, "Pclass"), c) > 0)
           => Last(page).chart.kind = "bar"

\* the frame lets the survival-by-class chart be drawn
ClassChartDrawable ==
    /\ {"Pclass", "Survived"} \subseteq df.columns
    /\ \A c \in 1..3 : Count(Column(df, "Pclass"), c) > 0

\* C5 amended: typing "show survival rate by class" never produces the
\* ClassBreakdown statistic; the text beside the chart is the fixed help
\* text; the chart is the survival-by-class bar chart whenever the frame has
\* the Pclass and Survived columns and all three classes, and none otherwise.
C5_ChartWithHelpText ==
    (pc = "typed" /\ query = Q_show_class /\ Loaded) =>
      /\ Last(page).role = "assistant"
      /\ Last(page).text = HelpText
      /\ ClassChartDrawable =>
           /\ Last(page).chart.kind = "bar"
           /\ Last(page).chart.title = "Survival Rate by Passenger Class"
           /\ Last(page).chart.names = <<"First", "Second", "Third">>
      /\ ~ClassChartDrawable => Last(page).chart = None

C5_Witness ==
    /\ pc = "typed"
    /\ query = Q_show_class
    /\ Last(page).chart.kind = "bar"
    /\ Last(page).text = HelpText

\* C6: no query that mentions fare together with show, plot, chart or graph
\* is answered with FareStats, and "Show me the fare distribution by class"
\* gets neither FareStats nor a chart.
C6_FareGuard ==
    /\ (Answered /\ Mentions(K_fare) /\ MentionsChartTerm) => answer.text.intent # "FareStats"
    /\ (pc = "done" /\ query = Q7) => (answer.text.intent # "FareStats" /\ fig.ret = None)

C6_Witness ==
    /\ pc = "done"
    /\ query = Q7
    /\ source = FullSample
    /\ answer.text = HelpText
    /\ fig.ret = None

\* C7: load_and_process_data runs at most once over any sequence of runs of main.
C7_LoadedOnce == loads <= 1

\* C8: after load_and_process_data every passenger whose age is a number >= 0
\* has exactly one AgeGroup: the label of the bin (lo, hi] that holds the
\* age, the first bin holding 0 as well, and a label also above 100.
C8_AgeGroupTotal ==
    pc \in {"loaded", "answered", "done"} =>
      \A i \in 1..Len(df.rows) :
        df.rows[i].Age # NaN =>
          /\ df.rows[i].AgeGroup \in {labels[k] : k \in 1..Len(labels)}
          /\ \A k \in 1..Len(labels) :
               (2 * bins[k] < df.rows[i].Age /\ df.rows[i].Age <= 2 * bins[k + 1])
                 => df.rows[i].AgeGroup = labels[k]

\* C9: no exception leaves process_query or create_visualization: a typed
\* query on a loaded frame is always answered in an assistant block with a
\* text (a statistic, the help text, or the apology); the text is the apology
\* exactly when the body of process_query raised, the chart is absent when
\* the body of create_visualization raised, and no block of the page is a
\* traceback.
C9_ErrorsContained ==
    Loaded =>
      /\ \A i \in 1..Len(page) : page[i].role # "exception"
      /\ pc = "typed" =>
           /\ Last(page).role = "assistant"
           /\ Last(page).text # NoText
           /\ \A tie \in TieOrders(df) :
                /\ process_query_try(df, query, tie).raised
                     <=> (Last(page).text = ApologyText /\ Last(page).error)
                /\ create_visualization_try(df, lower(query), tie).raised
                     => Last(page).chart = None

\* the body of process_query raised on a typed query and the apology was shown
C9_Witness ==
    /\ pc = "typed"
    /\ Loaded
    /\ process_query_try(df, query, <<1, 2, 3>>).raised
    /\ Last(page).text = ApologyText

\* C10: the log holds every user query and every assistant response produced,
\* in order: after a typed query it ends with the user message and the
\* assistant response written for it.
C10_LogHoldsEveryResponse ==
    (pc = "typed" /\ Loaded) =>
      /\ Len(messages) >= 2
      /\ messages[Len(messages) - 1] = Msg("user", query)
      /\ Last(messages).role = "assistant"

====
